---- MODULE Spec2Model ----
(***************************************************************************)
(* Model of pkg/objcache/objcache.go: an in-memory object cache with a     *)
(* two-phase write (Create / Write / Close), a read path with a freshness  *)
(* check (Open), Delete, and a janitor goroutine (StartGC / gc / StopGC).  *)
(*                                                                         *)
(* Time is an integer clock `now` (one unit = one tick of time.Duration).  *)
(* Buffers of the bytebufferpool are numbered objects with a content and   *)
(* a count of how many times each one sits in the pool.                     *)
(***************************************************************************)
EXTENDS Integers, Sequences, FiniteSets, TLC

\* ------------------------------------------------------------------ bounds
NumClients == 2        \* foreground goroutines calling the cache
NumKeys == 2           \* distinct keys
NumBufs == 3           \* buffers the pool can ever allocate
NumJanitors == 1       \* janitor goroutines alive at once
MaxOps == 3            \* cache calls (Create, Open, Delete, StartGC, StopGC) in a run
MaxTime == 7           \* the clock stops here
MaxCallTime == 1       \* the clients make their calls up to this time
ExpiryTicks == 4       \* the positive expiry the cache is constructed with
TotalSize == 20        \* the maxSize the cache is constructed with, or 0
MaxNewSize == 25       \* the largest maxSize New is tried with

\* ------------------------------------------------------- program constants
defaultBufferRatio == 10
NoExpiry == 0

Clients == 1..NumClients
Solo == {1}
Janitors == 1..NumJanitors
Keys == 1..NumKeys
BufIds == 1..NumBufs
Time == 0..MaxTime
NoHolder == 0
JanitorId(j) == NumClients + j

MaxSizes == {0, TotalSize}
Expiries == {NoExpiry, ExpiryTicks}

ErrNil == "nil"
ErrKeyNotFoundInCache == "Key not found in cache"
ErrCacheFull == "Not enough space in cache"
ErrInvalidSize == "invalid maximum cache size"

VARIABLES
  newErr,              \* the error New returned
  maxSize,             \* Cache.maxSize
  maxCacheEntrySize,   \* Cache.maxCacheEntrySize
  expiry,              \* Cache.expiry
  stopGC,              \* Cache.stopGC: "nil" or "chan"
  OnEviction,          \* Cache.OnEviction: "nil" or "set"
  mutex,               \* Cache.mutex: NoHolder or the id of the goroutine holding it
  currentSize,         \* Cache.currentSize
  totalEvicted,        \* Cache.totalEvicted
  entries,             \* Cache.entries: key -> [buf, lastAccessed]
  bufs,                \* content of every bytebufferpool.ByteBuffer
  pool,                \* how many times each buffer sits in the pool
  allocated,           \* number of buffers allocated so far
  now,                 \* the clock
  pc,                  \* where each client goroutine is
  call,                \* the arguments and locals of each client's current call
  ret,                 \* what the step just taken returned, if it was a call's return
  jpc,                 \* where each janitor goroutine is
  timer,               \* the deadline of each janitor's time.After
  evictedEntries,      \* gc's local slice, per janitor
  nops,                \* cache calls made so far
  committed,           \* history: key -> [payload, at] of the last commit, while not removed
  removed,             \* history: per key, entries removed from the store
  notified,            \* history: per key, OnEviction invocations
  deleted,             \* history: keys a Delete was called on, not committed since
  swept                \* history: entries the janitor has removed

cfg == <<newErr, maxSize, maxCacheEntrySize, expiry, stopGC, OnEviction>>
store == <<currentSize, totalEvicted, entries, bufs, pool, allocated>>
cli == <<pc, call>>
jan == <<jpc, timer, evictedEntries>>
hist == <<committed, removed, notified, deleted, swept>>
vars == <<cfg, mutex, store, now, cli, ret, jan, nops, hist>>

\* ------------------------------------------------------------------ helpers
Without(f, k) == [x \in DOMAIN f \ {k} |-> f[x]]
With(f, k, v) == [x \in DOMAIN f \cup {k} |-> IF x = k THEN v ELSE f[x]]
Len0(b) == Len(bufs[b])

\* The part of the state c.delete and onClose work on.
Heap == [entries |-> entries, currentSize |-> currentSize,
         totalEvicted |-> totalEvicted, bufs |-> bufs, pool |-> pool]

SetHeap(h) ==
  /\ entries' = h.entries
  /\ currentSize' = h.currentSize
  /\ totalEvicted' = h.totalEvicted
  /\ bufs' = h.bufs
  /\ pool' = h.pool

\* buf.Reset(); bytebufferpool.Put(buf)
ResetPut(h, b) ==
  [h EXCEPT !.bufs[b] = <<>>, !.pool[b] = @ + 1]

\* New without its fallback for a quotient of zero
EntrySizeOf_NoFallback(ms) == ms \div defaultBufferRatio

\* func New: the per-entry cap
EntrySizeOf(ms) ==
  LET i == ms \div defaultBufferRatio
  IN IF i = 0 THEN ms ELSE i

\* delete, leaving the key in the map
delete_KeepsEntry(h, key) ==
  IF key \in DOMAIN h.entries
  THEN LET b == h.entries[key].buf
           deletedSize == Len(h.bufs[b])
           h1 == ResetPut(h, b)
       IN [h1 EXCEPT !.currentSize = @ - deletedSize,
                     !.totalEvicted = @ + 1]
  ELSE h

\* delete counting an eviction for a key that is not there
delete_CountsAbsent(h, key) ==
  IF key \in DOMAIN h.entries
  THEN LET b == h.entries[key].buf
           deletedSize == Len(h.bufs[b])
           h1 == ResetPut(h, b)
       IN [h1 EXCEPT !.entries = Without(h.entries, key),
                     !.currentSize = @ - deletedSize,
                     !.totalEvicted = @ + 1]
  ELSE [h EXCEPT !.totalEvicted = @ + 1]

\* func (c *Cache) delete(key)
delete(h, key) ==
  IF key \in DOMAIN h.entries
  THEN LET b == h.entries[key].buf
           deletedSize == Len(h.bufs[b])
           h1 == ResetPut(h, b)
       IN [h1 EXCEPT !.entries = Without(h.entries, key),
                     !.currentSize = @ - deletedSize,
                     !.totalEvicted = @ + 1]
  ELSE h

\* ---------------------------------------------------------------- Init
NoCall == [key |-> 0, buf |-> 0, tag |-> 0]
NoRet == [op |-> "none", c |-> 0, key |-> 0, err |-> ErrNil, rbuf |-> 0]

\* func New(maxSize, expiry), followed by the caller's choice of c.OnEviction
New(ms, e, cb) ==
  /\ newErr = (IF ms = 0 THEN ErrInvalidSize ELSE ErrNil)
  /\ maxSize = ms
  /\ maxCacheEntrySize = EntrySizeOf(ms)
  /\ expiry = e
  /\ stopGC = (IF ms # 0 /\ e > 0 THEN "chan" ELSE "nil")
  /\ OnEviction = cb
  /\ jpc = [j \in Janitors |-> IF ms # 0 /\ e > 0 /\ j = 1 THEN "select" ELSE "none"]
  /\ timer = [j \in Janitors |-> e \div 4]

\* The cache New returns holds nothing, and no call has been made on it.
Empty ==
  /\ mutex = NoHolder
  /\ currentSize = 0
  /\ totalEvicted = 0
  /\ entries = <<>>
  /\ bufs = [b \in BufIds |-> <<>>]
  /\ pool = [b \in BufIds |-> 0]
  /\ allocated = 0
  /\ now = 0
  /\ pc = [c \in Clients |-> "idle"]
  /\ call = [c \in Clients |-> NoCall]
  /\ ret = NoRet
  /\ evictedEntries = [j \in Janitors |-> <<>>]
  /\ nops = 0
  /\ committed = <<>>
  /\ removed = [k \in Keys |-> 0]
  /\ notified = [k \in Keys |-> 0]
  /\ deleted = {}
  /\ swept = 0

Init ==
  /\ \E ms \in MaxSizes, e \in Expiries, cb \in {"nil", "set"} : New(ms, e, cb)
  /\ Empty

\* New over a range of sizes, the small ones included
InitNew ==
  /\ \E ms \in 0..MaxNewSize, e \in Expiries, cb \in {"nil", "set"} : New(ms, e, cb)
  /\ Empty

\* A client can take a step of its own choosing: the cache was constructed and
\* the clients are still at work.
Active == newErr = ErrNil /\ now <= MaxCallTime

\* A call can start: the client is between calls and the run has calls left.
CanCall(c) == Active /\ pc[c] = "idle" /\ nops < MaxOps

\* -------------------------------------------------------- Create / Write / Close
\* bytebufferpool.Get(): a buffer of the pool when it holds one, else a new one.
Get(b) ==
  IF \E x \in BufIds : pool[x] > 0
  THEN /\ pool[b] > 0
       /\ pool' = [pool EXCEPT ![b] = @ - 1]
       /\ UNCHANGED allocated
  ELSE /\ b = allocated + 1
       /\ allocated' = allocated + 1
       /\ UNCHANGED pool

\* func (c *Cache) Create(key). The bytes the caller will write are tagged with
\* the number of the call, so that every sink carries a payload of its own.
Create(c, k) ==
  /\ CanCall(c)
  /\ \E b \in BufIds :
       /\ Get(b)
       /\ call' = [call EXCEPT ![c] = [key |-> k, buf |-> b, tag |-> nops + 1]]
  /\ pc' = [pc EXCEPT ![c] = "sink"]
  /\ nops' = nops + 1
  /\ ret' = NoRet
  /\ UNCHANGED <<cfg, mutex, currentSize, totalEvicted, entries, bufs, now, jan, hist>>

\* writeCloser.Write: the embedded ByteBuffer appends the bytes (one at a time
\* here, up to one byte past the per-entry cap).
Write(c) ==
  /\ Active
  /\ pc[c] = "sink"
  /\ Len0(call[c].buf) <= maxCacheEntrySize
  /\ bufs' = [bufs EXCEPT ![call[c].buf] = Append(@, call[c].tag)]
  /\ ret' = NoRet
  /\ UNCHANGED <<cfg, mutex, currentSize, totalEvicted, entries, pool, allocated,
                 now, cli, jan, nops, hist>>

\* A payload that is not empty and within the per-entry cap: what a finalize commits.
Fits(p) == 0 < Len(p) /\ Len(p) <= maxCacheEntrySize

\* onClose without its test for an empty buffer
onCloseBody_StoresEmpty(h, key, b, t) ==
  IF Len(h.bufs[b]) > maxCacheEntrySize
  THEN [heap |-> ResetPut(h, b), err |-> ErrCacheFull, stored |-> FALSE]
  ELSE [heap |-> [h EXCEPT !.entries = With(h.entries, key, [buf |-> b, lastAccessed |-> t]),
                           !.currentSize = @ + Len(h.bufs[b])],
        err |-> ErrNil, stored |-> TRUE]

\* onClose keeping the buffer of a payload it rejects
onCloseBody_FullKeepsBuffer(h, key, b, t) ==
  IF Len(h.bufs[b]) = 0
  THEN [heap |-> ResetPut(h, b), err |-> ErrNil, stored |-> FALSE]
  ELSE IF Len(h.bufs[b]) > maxCacheEntrySize
  THEN [heap |-> h, err |-> ErrCacheFull, stored |-> FALSE]
  ELSE [heap |-> [h EXCEPT !.entries = With(h.entries, key, [buf |-> b, lastAccessed |-> t]),
                           !.currentSize = @ + Len(h.bufs[b])],
        err |-> ErrNil, stored |-> TRUE]

\* onClose testing the length against c.maxSize
onCloseBody_CapIsMaxSize(h, key, b, t) ==
  IF Len(h.bufs[b]) = 0
  THEN [heap |-> ResetPut(h, b), err |-> ErrNil, stored |-> FALSE]
  ELSE IF Len(h.bufs[b]) > maxSize
  THEN [heap |-> ResetPut(h, b), err |-> ErrCacheFull, stored |-> FALSE]
  ELSE [heap |-> [h EXCEPT !.entries = With(h.entries, key, [buf |-> b, lastAccessed |-> t]),
                           !.currentSize = @ + Len(h.bufs[b])],
        err |-> ErrNil, stored |-> TRUE]

\* onClose storing the entry in a map of its own
onCloseBody_SingleSlot(h, key, b, t) ==
  IF Len(h.bufs[b]) = 0
  THEN [heap |-> ResetPut(h, b), err |-> ErrNil, stored |-> FALSE]
  ELSE IF Len(h.bufs[b]) > maxCacheEntrySize
  THEN [heap |-> ResetPut(h, b), err |-> ErrCacheFull, stored |-> FALSE]
  ELSE [heap |-> [h EXCEPT !.entries = With(<<>>, key, [buf |-> b, lastAccessed |-> t]),
                           !.currentSize = @ + Len(h.bufs[b])],
        err |-> ErrNil, stored |-> TRUE]

\* onClose keeping the entry a key already has
onCloseBody_KeepsFirst(h, key, b, t) ==
  IF Len(h.bufs[b]) = 0
  THEN [heap |-> ResetPut(h, b), err |-> ErrNil, stored |-> FALSE]
  ELSE IF Len(h.bufs[b]) > maxCacheEntrySize
  THEN [heap |-> ResetPut(h, b), err |-> ErrCacheFull, stored |-> FALSE]
  ELSE IF key \in DOMAIN h.entries
  THEN [heap |-> ResetPut(h, b), err |-> ErrNil, stored |-> FALSE]
  ELSE [heap |-> [h EXCEPT !.entries = With(h.entries, key, [buf |-> b, lastAccessed |-> t]),
                           !.currentSize = @ + Len(h.bufs[b])],
        err |-> ErrNil, stored |-> TRUE]

\* onClose releasing the entry it replaces
onCloseBody_ReleasesOld(h, key, b, t) ==
  IF Len(h.bufs[b]) = 0
  THEN [heap |-> ResetPut(h, b), err |-> ErrNil, stored |-> FALSE]
  ELSE IF Len(h.bufs[b]) > maxCacheEntrySize
  THEN [heap |-> ResetPut(h, b), err |-> ErrCacheFull, stored |-> FALSE]
  ELSE [heap |-> [delete(h, key) EXCEPT
                    !.entries = With(delete(h, key).entries, key, [buf |-> b, lastAccessed |-> t]),
                    !.currentSize = @ + Len(h.bufs[b])],
        err |-> ErrNil, stored |-> TRUE]

\* onClose dropping an empty buffer without pooling it
onCloseBody_EmptyNoPut(h, key, b, t) ==
  IF Len(h.bufs[b]) = 0
  THEN [heap |-> h, err |-> ErrNil, stored |-> FALSE]
  ELSE IF Len(h.bufs[b]) > maxCacheEntrySize
  THEN [heap |-> ResetPut(h, b), err |-> ErrCacheFull, stored |-> FALSE]
  ELSE [heap |-> [h EXCEPT !.entries = With(h.entries, key, [buf |-> b, lastAccessed |-> t]),
                           !.currentSize = @ + Len(h.bufs[b])],
        err |-> ErrNil, stored |-> TRUE]

\* The body of onClose on the heap: the new heap and the error returned.
onCloseBody(h, key, b, t) ==
  IF Len(h.bufs[b]) = 0
  THEN [heap |-> ResetPut(h, b), err |-> ErrNil, stored |-> FALSE]
  ELSE IF Len(h.bufs[b]) > maxCacheEntrySize
  THEN [heap |-> ResetPut(h, b), err |-> ErrCacheFull, stored |-> FALSE]
  ELSE [heap |-> [h EXCEPT !.entries = With(h.entries, key, [buf |-> b, lastAccessed |-> t]),
                           !.currentSize = @ + Len(h.bufs[b])],
        err |-> ErrNil, stored |-> TRUE]

\* writeCloser.Close calls onClose, which holds c.mutex from its first statement
\* to its return: one step, taken when the lock is free.
Close(c) ==
  /\ Active
  /\ pc[c] = "sink"
  /\ mutex = NoHolder
  /\ LET key == call[c].key
         b == call[c].buf
         r == onCloseBody(Heap, key, b, now)
     IN /\ SetHeap(r.heap)
        /\ ret' = [op |-> "Close", c |-> c, key |-> key, err |-> r.err, rbuf |-> b]
        /\ committed' = IF Fits(bufs[b])
                        THEN With(committed, key, [payload |-> bufs[b], at |-> now])
                        ELSE committed
        /\ deleted' = IF Fits(bufs[b]) THEN deleted \ {key} ELSE deleted
  /\ pc' = [pc EXCEPT ![c] = "idle"]
  /\ call' = [call EXCEPT ![c] = NoCall]
  /\ UNCHANGED <<cfg, mutex, allocated, now, jan, nops, removed, notified, swept>>

\* ------------------------------------------------------------------ Open
\* Open taking an entry last accessed at atime itself for stale
OpenBody_NotAfter(h, key, atime, t) ==
  IF key \notin DOMAIN h.entries
  THEN [heap |-> h, err |-> ErrKeyNotFoundInCache, rbuf |-> 0]
  ELSE IF h.entries[key].lastAccessed <= atime
  THEN [heap |-> delete(h, key), err |-> ErrKeyNotFoundInCache, rbuf |-> 0]
  ELSE [heap |-> [h EXCEPT !.entries[key].lastAccessed = t],
        err |-> ErrNil, rbuf |-> h.entries[key].buf]

\* Open leaving lastAccessed as it was
OpenBody_NoRefresh(h, key, atime, t) ==
  IF key \notin DOMAIN h.entries
  THEN [heap |-> h, err |-> ErrKeyNotFoundInCache, rbuf |-> 0]
  ELSE IF h.entries[key].lastAccessed < atime
  THEN [heap |-> delete(h, key), err |-> ErrKeyNotFoundInCache, rbuf |-> 0]
  ELSE [heap |-> h, err |-> ErrNil, rbuf |-> h.entries[key].buf]

\* The body of Open on the heap: the new heap, the error and the buffer read.
OpenBody(h, key, atime, t) ==
  IF key \notin DOMAIN h.entries
  THEN [heap |-> h, err |-> ErrKeyNotFoundInCache, rbuf |-> 0]
  ELSE IF h.entries[key].lastAccessed < atime
  THEN [heap |-> delete(h, key), err |-> ErrKeyNotFoundInCache, rbuf |-> 0]
  ELSE [heap |-> [h EXCEPT !.entries[key].lastAccessed = t],
        err |-> ErrNil, rbuf |-> h.entries[key].buf]

\* func (c *Cache) Open(key, atime) holds c.mutex from its first statement to
\* its return: one step, taken when the lock is free.
Open(c, key, atime) ==
  /\ CanCall(c)
  /\ mutex = NoHolder
  /\ LET r == OpenBody(Heap, key, atime, now)
         gone == key \in DOMAIN entries /\ key \notin DOMAIN r.heap.entries
     IN /\ SetHeap(r.heap)
        /\ ret' = [op |-> "Open", c |-> c, key |-> key, err |-> r.err, rbuf |-> r.rbuf]
        /\ removed' = IF gone THEN [removed EXCEPT ![key] = @ + 1] ELSE removed
        /\ committed' = IF gone THEN Without(committed, key) ELSE committed
  /\ nops' = nops + 1
  /\ UNCHANGED <<cfg, mutex, allocated, now, cli, jan, notified, deleted, swept>>

\* Open by a caller that keeps the reader it is given: call[c] then holds the
\* key, the buffer the reader is over, and in tag the number of entries of the
\* key removed so far.
OpenRead(c, key, atime) ==
  /\ CanCall(c)
  /\ mutex = NoHolder
  /\ LET r == OpenBody(Heap, key, atime, now)
         gone == key \in DOMAIN entries /\ key \notin DOMAIN r.heap.entries
     IN /\ SetHeap(r.heap)
        /\ ret' = [op |-> "Open", c |-> c, key |-> key, err |-> r.err, rbuf |-> r.rbuf]
        /\ removed' = IF gone THEN [removed EXCEPT ![key] = @ + 1] ELSE removed
        /\ committed' = IF gone THEN Without(committed, key) ELSE committed
        /\ pc' = [pc EXCEPT ![c] = IF r.err = ErrNil THEN "reading" ELSE "idle"]
        /\ call' = [call EXCEPT ![c] = IF r.err = ErrNil
                                       THEN [key |-> key, buf |-> r.rbuf, tag |-> removed[key]]
                                       ELSE NoCall]
  /\ nops' = nops + 1
  /\ UNCHANGED <<cfg, mutex, allocated, now, jan, notified, deleted, swept>>

\* The caller reads its reader to the end and drops it. What it reads from a
\* buffer that was reset and pooled in the meantime is not defined, and is not
\* represented.
ReadAll(c) ==
  /\ pc[c] = "reading"
  /\ ret' = [NoRet EXCEPT !.op = "Read", !.c = c, !.key = call[c].key, !.rbuf = call[c].buf]
  /\ pc' = [pc EXCEPT ![c] = "idle"]
  /\ call' = [call EXCEPT ![c] = NoCall]
  /\ UNCHANGED <<cfg, mutex, store, now, jan, nops, hist>>

\* ---------------------------------------------------------------- Delete
\* func (c *Cache) Delete(key), up to c.mutex.Lock()
DeleteLock(c, k) ==
  /\ CanCall(c)
  /\ mutex = NoHolder
  /\ mutex' = c
  /\ pc' = [pc EXCEPT ![c] = "Delete"]
  /\ call' = [call EXCEPT ![c] = [key |-> k, buf |-> 0, tag |-> 0]]
  /\ nops' = nops + 1
  /\ ret' = NoRet
  /\ UNCHANGED <<cfg, store, now, jan, hist>>

\* Delete unlocking on return (defer c.mutex.Unlock())
DeleteUnlock_Deferred(c) == c

\* The lock Delete leaves behind when it goes on to the callback.
DeleteUnlock(c) == NoHolder

\* Delete calling back only when it removed an entry
DeleteNotifies_IfPresent(key, present) == OnEviction # "nil" /\ present

\* Whether Delete calls c.OnEviction(key).
DeleteNotifies(key, present) == OnEviction # "nil"

\* Delete: c.delete(key); c.mutex.Unlock(); if c.OnEviction != nil
DeleteLocked(c) ==
  /\ pc[c] = "Delete"
  /\ LET key == call[c].key
         h == delete(Heap, key)
         gone == key \in DOMAIN entries /\ key \notin DOMAIN h.entries
         notifies == DeleteNotifies(key, key \in DOMAIN entries)
     IN /\ SetHeap(h)
        /\ removed' = IF gone THEN [removed EXCEPT ![key] = @ + 1] ELSE removed
        /\ committed' = IF gone THEN Without(committed, key) ELSE committed
        /\ deleted' = deleted \cup {key}
        /\ ret' = IF notifies THEN NoRet
                  ELSE [NoRet EXCEPT !.op = "Delete", !.c = c, !.key = key]
        /\ pc' = [pc EXCEPT ![c] = IF notifies THEN "Delete_notify" ELSE "idle"]
        /\ call' = [call EXCEPT ![c] = IF notifies THEN @ ELSE NoCall]
  /\ mutex' = DeleteUnlock(c)
  /\ UNCHANGED <<cfg, allocated, now, jan, nops, notified, swept>>

\* The callback c.OnEviction(key) runs: it is the caller's code, and may call back
\* into the cache (Open, Create and Close take c.mutex), so it runs only when it
\* can take the lock.
Notify(k) ==
  /\ mutex = NoHolder
  /\ notified' = [notified EXCEPT ![k] = @ + 1]

\* Delete: c.OnEviction(key), and the return
DeleteNotify(c) ==
  /\ pc[c] = "Delete_notify"
  /\ Notify(call[c].key)
  /\ ret' = [NoRet EXCEPT !.op = "Delete", !.c = c, !.key = call[c].key]
  /\ pc' = [pc EXCEPT ![c] = "idle"]
  /\ call' = [call EXCEPT ![c] = NoCall]
  /\ UNCHANGED <<cfg, mutex, store, now, jan, nops, committed, removed, deleted, swept>>

\* --------------------------------------------------------------- janitor
\* Go ranges over a map in an order of its own choosing.
Orders(S) == {f \in [1..Cardinality(S) -> S] : \A i, j \in DOMAIN f : f[i] = f[j] => i = j}

\* gc evicting an entry as soon as its idle time reaches the expiry
Expired_AtExpiry(e, t) == expiry > 0 /\ t - e.lastAccessed >= expiry

\* gc without its test of c.expiry > 0
Expired_NoExpiryTest(e, t) == t - e.lastAccessed > expiry

\* gc's test of one entry
Expired(e, t) == expiry > 0 /\ t - e.lastAccessed > expiry

\* gc's loop over c.entries, in the given order, at time t
RECURSIVE gcLoop(_, _, _, _)
gcLoop(h, order, evicted, t) ==
  IF order = <<>>
  THEN [heap |-> h, evicted |-> evicted]
  ELSE LET k == Head(order)
       IN IF Expired(h.entries[k], t)
          THEN gcLoop(delete(h, k), Tail(order), Append(evicted, k), t)
          ELSE gcLoop(h, Tail(order), evicted, t)

\* StartGC's goroutine: case <-time.After(c.expiry / 4) fires and gc takes
\* c.mutex (the goroutine waits for the one, then for the other)
gcLock(j) ==
  /\ jpc[j] = "select"
  /\ now >= timer[j]
  /\ mutex = NoHolder
  /\ mutex' = JanitorId(j)
  /\ jpc' = [jpc EXCEPT ![j] = "gc"]
  /\ ret' = NoRet
  /\ UNCHANGED <<cfg, store, now, cli, timer, evictedEntries, nops, hist>>

\* The lock gc leaves behind when its loop is over.
gcUnlock(j) == NoHolder

\* gc: the loop over c.entries and c.mutex.Unlock()
gcSweep(j) ==
  /\ jpc[j] = "gc"
  /\ \E order \in Orders(DOMAIN entries) :
       LET r == gcLoop(Heap, order, <<>>, now)
           gone == DOMAIN entries \ DOMAIN r.heap.entries
       IN /\ SetHeap(r.heap)
          /\ evictedEntries' = [evictedEntries EXCEPT ![j] = r.evicted]
          /\ removed' = [k \in Keys |-> IF k \in gone THEN removed[k] + 1 ELSE removed[k]]
          /\ committed' = [k \in DOMAIN committed \ gone |-> committed[k]]
          /\ swept' = swept + Cardinality(gone)
  /\ mutex' = gcUnlock(j)
  /\ jpc' = [jpc EXCEPT ![j] = "gc_notify"]
  /\ ret' = NoRet
  /\ UNCHANGED <<cfg, allocated, now, cli, timer, nops, notified, deleted>>

\* gc: one turn of the loop over evictedEntries
gcNotify(j) ==
  /\ jpc[j] = "gc_notify"
  /\ evictedEntries[j] # <<>>
  /\ IF OnEviction # "nil"
     THEN Notify(Head(evictedEntries[j]))
     ELSE UNCHANGED notified
  /\ evictedEntries' = [evictedEntries EXCEPT ![j] = Tail(@)]
  /\ ret' = NoRet
  /\ UNCHANGED <<cfg, mutex, store, now, cli, jpc, timer, nops, committed, removed, deleted, swept>>

\* gc returns; the goroutine is back at its select with a new time.After
gcReturn(j) ==
  /\ jpc[j] = "gc_notify"
  /\ evictedEntries[j] = <<>>
  /\ jpc' = [jpc EXCEPT ![j] = "select"]
  /\ timer' = [timer EXCEPT ![j] = now + expiry \div 4]
  /\ ret' = NoRet
  /\ UNCHANGED <<cfg, mutex, store, now, cli, evictedEntries, nops, hist>>

\* func (c *Cache) StartGC(): one more goroutine
StartGC(c) ==
  /\ CanCall(c)
  /\ \E j \in Janitors :
       /\ jpc[j] = "none"
       /\ \A i \in Janitors : jpc[i] = "none" => j <= i
       /\ jpc' = [jpc EXCEPT ![j] = "select"]
       /\ timer' = [timer EXCEPT ![j] = now + expiry \div 4]
  /\ ret' = [NoRet EXCEPT !.op = "StartGC", !.c = c]
  /\ nops' = nops + 1
  /\ UNCHANGED <<cfg, mutex, store, now, pc, call, evictedEntries, hist>>

\* StopGC sending only while a janitor is there to receive
StopSends_IfRunning == stopGC # "nil" /\ \E j \in Janitors : jpc[j] # "none"

\* StopGC's test: if c.stopGC != nil
StopSends == stopGC # "nil"

\* func (c *Cache) StopGC(): returns at once on a nil channel, else sends
StopGC(c) ==
  /\ CanCall(c)
  /\ IF ~StopSends
     THEN /\ ret' = [NoRet EXCEPT !.op = "StopGC", !.c = c]
          /\ UNCHANGED pc
     ELSE /\ pc' = [pc EXCEPT ![c] = "StopGC"]
          /\ ret' = NoRet
  /\ nops' = nops + 1
  /\ UNCHANGED <<cfg, mutex, store, now, call, jan, hist>>

\* The goroutine receiving the stop signal going round its loop again
StopExit_Loops(j) == "select"

\* Where the goroutine is after case <-c.stopGC: it has returned.
StopExit(j) == "none"

\* The send c.stopGC <- struct{}{} meets the goroutine's case <-c.stopGC
StopReceived(c, j) ==
  /\ pc[c] = "StopGC"
  /\ jpc[j] = "select"
  /\ jpc' = [jpc EXCEPT ![j] = StopExit(j)]
  /\ pc' = [pc EXCEPT ![c] = "idle"]
  /\ ret' = [NoRet EXCEPT !.op = "StopGC", !.c = c]
  /\ UNCHANGED <<cfg, mutex, store, now, call, timer, evictedEntries, nops, hist>>

\* Time passes.
Tick ==
  /\ now < MaxTime
  /\ now' = now + 1
  /\ ret' = NoRet
  /\ UNCHANGED <<cfg, mutex, store, cli, jan, nops, hist>>

\* One foreground goroutine at work
ClientStep(c) ==
  \/ \E k \in Keys : Create(c, k)
  \/ Write(c)
  \/ Close(c)
  \/ \E k \in Keys, t \in Time : Open(c, k, t)
  \/ \E k \in Keys : DeleteLock(c, k)
  \/ DeleteLocked(c)
  \/ DeleteNotify(c)
  \/ StartGC(c)
  \/ StopGC(c)
  \/ \E j \in Janitors : StopReceived(c, j)

\* One janitor goroutine at work
JanitorStep(j) ==
  \/ gcLock(j)
  \/ gcSweep(j)
  \/ gcNotify(j)
  \/ gcReturn(j)

\* One foreground goroutine, the janitor and the clock
Next ==
  \/ \E c \in Solo : ClientStep(c)
  \/ \E j \in Janitors : JanitorStep(j)
  \/ Tick

Spec == Init /\ [][Next]_vars

\* Time passes with the janitor on time: its timer is not due, or it is inside
\* an OnEviction callback; and no critical section is under way.
TickOnTime ==
  /\ mutex = NoHolder
  /\ \A j \in Janitors :
       \/ jpc[j] = "none"
       \/ jpc[j] = "select" /\ now < timer[j]
       \/ jpc[j] = "gc_notify" /\ evictedEntries[j] # <<>> /\ OnEviction # "nil"
  /\ Tick

\* A foreground goroutine that leaves the janitor alone
CacheStep(c) ==
  \/ \E k \in Keys : Create(c, k)
  \/ Write(c)
  \/ Close(c)
  \/ \E k \in Keys, t \in Time : Open(c, k, t)
  \/ \E k \in Keys : DeleteLock(c, k)
  \/ DeleteLocked(c)
  \/ DeleteNotify(c)

\* The janitor New started, never stopped, sweeping the moment its timer fires
NextOnTime ==
  \/ \E c \in Solo : CacheStep(c)
  \/ \E j \in Janitors : JanitorStep(j)
  \/ TickOnTime

SpecOnTime == Init /\ [][NextOnTime]_vars

\* A goroutine that writes and reads
WriterStep(c) ==
  \/ \E k \in Keys : Create(c, k)
  \/ Write(c)
  \/ Close(c)
  \/ \E k \in Keys, t \in Time : Open(c, k, t)

\* The foreground goroutines running concurrently, each at its own pace
NextPair == \E c \in Clients : WriterStep(c)

SpecPair == Init /\ [][NextPair]_vars

\* The cache as New leaves it, with no caller: the janitor New started, if any,
\* and the clock
NextNew ==
  \/ \E j \in Janitors : gcLock(j)
  \/ \E j \in Janitors : gcSweep(j)
  \/ \E j \in Janitors : gcReturn(j)
  \/ Tick

SpecNew == InitNew /\ [][NextNew]_vars

\* A goroutine that keeps the readers Open gives it
ReaderStep(c) ==
  \/ \E k \in Keys : Create(c, k)
  \/ Write(c)
  \/ Close(c)
  \/ \E k \in Keys, t \in Time : OpenRead(c, k, t)
  \/ ReadAll(c)

\* A reading goroutine, a second goroutine calling the cache, the janitor and
\* the clock
NextReader ==
  \/ \E c \in Solo : ReaderStep(c)
  \/ \E c \in Clients \ Solo : CacheStep(c)
  \/ \E j \in Janitors : JanitorStep(j)
  \/ Tick

SpecReader == Init /\ [][NextReader]_vars

\* ------------------------------------------------------------------ claims
\* The bytes an entry holds.
EntryBytes(k) == bufs[entries[k].buf]

RECURSIVE SumLen(_)
SumLen(S) ==
  IF S = {} THEN 0
  ELSE LET k == CHOOSE x \in S : TRUE
       IN Len(EntryBytes(k)) + SumLen(S \ {k})

\* C1: in every reachable state currentSize equals the sum of the byte lengths
\* of the entries in the store.
C1_SizeAccounting == currentSize = SumLen(DOMAIN entries)

\* C2: an Open of a key whose last commit is still in place, with a reference
\* time no later than the commit time, succeeds and reads exactly the payload.
C2_RoundTrip ==
  [][\A c \in Clients, k \in Keys, t \in Time :
       (Open(c, k, t) /\ k \in DOMAIN committed /\ t <= committed[k].at)
       => /\ ret'.err = ErrNil
          /\ ret'.rbuf # 0
          /\ bufs'[ret'.rbuf] = committed[k].payload]_vars

C2_Witness ==
  /\ ret.op = "Open" /\ ret.err = ErrNil
  /\ ret.key \in DOMAIN committed
  /\ bufs[ret.rbuf] = committed[ret.key].payload
  /\ Len(bufs[ret.rbuf]) = maxCacheEntrySize
  /\ now > committed[ret.key].at

NotFound(h, k) == \A t \in Time : OpenBody(h, k, t, now).err = ErrKeyNotFoundInCache

\* C4 as stated: an Open of an entry committed at t0, with a reference time
\* after t0, returns not-found and removes the entry.
C4_StaleAfterCommit ==
  [][\A c \in Clients, k \in Keys, t \in Time :
       (Open(c, k, t) /\ k \in DOMAIN committed /\ t > committed[k].at)
       => /\ ret'.err = ErrKeyNotFoundInCache
          /\ k \notin DOMAIN entries']_vars

\* C4 as amended: an Open with a reference time after the entry's lastAccessed
\* (its commit, or its last successful Open) returns not-found and removes the
\* entry, so that every later Open of the key misses.
C4_StaleAfterLastAccess ==
  [][\A c \in Clients, k \in Keys, t \in Time :
       (Open(c, k, t) /\ k \in DOMAIN entries /\ t > entries[k].lastAccessed)
       => /\ ret'.err = ErrKeyNotFoundInCache
          /\ k \notin DOMAIN entries'
          /\ NotFound(Heap', k)]_vars

C4_Witness ==
  /\ ret.op = "Open" /\ ret.err = ErrKeyNotFoundInCache
  /\ removed[ret.key] = 1
  /\ ret.key \notin deleted
  /\ expiry = NoExpiry

\* Every call has returned and the janitor is between two sweeps (or gone).
Quiescent ==
  /\ \A c \in Clients : pc[c] \in {"idle", "sink"}
  /\ \A j \in Janitors : jpc[j] \in {"none", "select"}
  /\ mutex = NoHolder

\* C3: once every operation has returned, OnEviction(k) was invoked as many
\* times as an entry of k was removed from the store.
C3_NotifiedOncePerRemoval ==
  (OnEviction = "set" /\ Quiescent) => \A k \in Keys : notified[k] = removed[k]

\* C5 as stated: a finalize of an empty sink returns no error, leaves entries,
\* currentSize and totalEvicted as they were, and an Open of the key then misses.
C5_ZeroByteThenMiss ==
  [][\A c \in Clients :
       (Close(c) /\ Len0(call[c].buf) = 0)
       => /\ ret'.err = ErrNil
          /\ UNCHANGED <<entries, currentSize, totalEvicted>>
          /\ NotFound(Heap', call[c].key)]_vars

\* C5 as amended: a finalize of an empty sink returns no error and leaves
\* entries, currentSize and totalEvicted as they were; an Open of the key then
\* answers as it would have before, a miss when the key was not in the store.
C5_ZeroByteNoOp ==
  [][\A c \in Clients :
       (Close(c) /\ Len0(call[c].buf) = 0)
       => /\ ret'.err = ErrNil
          /\ UNCHANGED <<entries, currentSize, totalEvicted>>
          /\ \A t \in Time : OpenBody(Heap', call[c].key, t, now).err
                             = OpenBody(Heap, call[c].key, t, now).err
          /\ call[c].key \notin DOMAIN entries => NotFound(Heap', call[c].key)]_vars

C5_Witness ==
  /\ ret.op = "Close" /\ ret.err = ErrNil
  /\ ret.key \in DOMAIN entries
  /\ entries[ret.key].buf # ret.rbuf
  /\ pool[ret.rbuf] > 0

\* C6: a finalize of a sink longer than maxCacheEntrySize returns ErrCacheFull,
\* resets the buffer and puts it in the pool, and leaves currentSize and the
\* entries (one under the same key included) as they were.
C6_CacheFull ==
  [][\A c \in Clients :
       (Close(c) /\ Len0(call[c].buf) > maxCacheEntrySize)
       => /\ ret'.err = ErrCacheFull
          /\ bufs'[call[c].buf] = <<>>
          /\ pool'[call[c].buf] = pool[call[c].buf] + 1
          /\ UNCHANGED <<entries, currentSize>>]_vars

C6_Witness ==
  /\ ret.op = "Close" /\ ret.err = ErrCacheFull
  /\ ret.key \in DOMAIN entries

\* C7: every entry in the store holds at least one byte and at most
\* maxCacheEntrySize bytes.
C7_EntrySizes ==
  \A k \in DOMAIN entries :
    0 < Len(EntryBytes(k)) /\ Len(EntryBytes(k)) <= maxCacheEntrySize

C7_Witness ==
  /\ \E k \in DOMAIN entries : Len(EntryBytes(k)) = maxCacheEntrySize
  /\ \E k \in DOMAIN entries : Len(EntryBytes(k)) = 1

\* C8: once Delete(k) is past its critical section, and until k is committed
\* again, every Open of k returns not-found; and with a callback set, Delete
\* returns from the one invocation of OnEviction(k) it makes.
C8_Delete ==
  [][/\ \A c \in Clients, k \in Keys, t \in Time :
          (Open(c, k, t) /\ k \in deleted) => ret'.err = ErrKeyNotFoundInCache
     /\ (ret'.op = "Delete" /\ OnEviction = "set")
          => /\ pc[ret'.c] = "Delete_notify"
             /\ notified' = [notified EXCEPT ![ret'.key] = @ + 1]
     /\ \A c \in Clients :
          (pc[c] # "Delete_notify" /\ pc'[c] \in {"Delete", "Delete_notify"})
          => notified' = notified]_vars

C8_Witness ==
  /\ ret.op = "Open" /\ ret.err = ErrKeyNotFoundInCache
  /\ ret.key \in deleted
  /\ removed[ret.key] = 1 /\ notified[ret.key] = 1

\* C9: no goroutine holds c.mutex while it is in the OnEviction callback, in
\* Delete or in gc.
C9_CallbackOffLock ==
  /\ \A c \in Clients : pc[c] = "Delete_notify" => mutex # c
  /\ \A j \in Janitors : jpc[j] = "gc_notify" => mutex # JanitorId(j)

C9_Witness ==
  /\ \E c \in Clients : pc[c] = "Delete_notify"
  /\ \E j \in Janitors : jpc[j] = "gc_notify" /\ evictedEntries[j] # <<>>
  /\ OnEviction = "set"

\* The longest an entry may stay idle by C10: expiry and a quarter.
IdleBound == expiry + expiry \div 4

IdleWithin(es, t, bound) == \A k \in DOMAIN es : t - es[k].lastAccessed <= bound

\* C10 as stated, its upper bound: while the janitor runs, with a callback
\* set, no entry stays in the store longer than 1.25 * expiry after its last
\* access.
C10_GoneWithinBound ==
  (expiry > 0 /\ OnEviction = "set") => IdleWithin(entries, now, IdleBound)

\* C10 as amended: a sweep removes exactly the entries idle for longer than
\* expiry, gc invokes OnEviction once for each of them before it returns, and
\* as long as no callback has held the janitor up (it has evicted nothing yet,
\* or no callback is set) no entry stays longer than 1.25 * expiry after its
\* last access.
C10_IdleExpiry ==
  [][/\ \A j \in Janitors :
          (jpc[j] = "gc" /\ jpc'[j] = "gc_notify")
          => LET gone == DOMAIN entries \ DOMAIN entries'
             IN /\ \A k \in gone : now - entries[k].lastAccessed > expiry
                /\ IdleWithin(entries', now, expiry)
                /\ Len(evictedEntries'[j]) = Cardinality(gone)
                /\ {evictedEntries'[j][i] : i \in DOMAIN evictedEntries'[j]} = gone
     /\ \A j \in Janitors :
          (jpc[j] = "gc_notify" /\ evictedEntries'[j] # evictedEntries[j])
          => /\ evictedEntries'[j] = Tail(evictedEntries[j])
             /\ OnEviction = "set"
                  => notified' = [notified EXCEPT ![Head(evictedEntries[j])] = @ + 1]
     /\ \A j \in Janitors :
          (jpc[j] = "gc_notify" /\ jpc'[j] = "select") => evictedEntries[j] = <<>>
     /\ (expiry > 0 /\ (swept' = 0 \/ OnEviction = "nil"))
          => IdleWithin(entries', now', IdleBound)]_vars

C10_Witness ==
  /\ OnEviction = "set"
  /\ swept = 2
  /\ \A k \in Keys : removed[k] = 1 /\ notified[k] = 1 /\ k \notin deleted
  /\ \A j \in Janitors : jpc[j] = "select"

\* C11: a sweep leaves every entry idle for at most expiry where it is; a commit
\* and a successful Open set lastAccessed to the current time, so an entry
\* committed or read within the last expiry is not the janitor's to evict.
C11_FreshNotSwept ==
  [][/\ \A j \in Janitors :
          (jpc[j] = "gc" /\ jpc'[j] = "gc_notify")
          => \A k \in DOMAIN entries :
               now - entries[k].lastAccessed <= expiry
               => k \in DOMAIN entries' /\ entries'[k] = entries[k]
     /\ \A c \in Clients, k \in Keys, t \in Time :
          (Open(c, k, t) /\ ret'.err = ErrNil)
          => k \in DOMAIN entries' /\ entries'[k].lastAccessed = now
     /\ \A c \in Clients :
          (Close(c) /\ Fits(bufs[call[c].buf]))
          => entries'[call[c].key].lastAccessed = now]_vars

C11_Witness ==
  /\ \E j \in Janitors : jpc[j] = "gc_notify"
  /\ expiry > 0
  /\ swept = 1
  /\ \E k \in DOMAIN entries :
       /\ k \in DOMAIN committed
       /\ now - committed[k].at > expiry
       /\ now - entries[k].lastAccessed = expiry

NoJanitor == \A j \in Janitors : jpc[j] = "none"

C13_SecondStopBlocks ==
  [][/\ \A c \in Clients :
          (StopGC(c) /\ expiry > 0 /\ NoJanitor)
          => pc'[c] = "StopGC" /\ ret'.op # "StopGC"
     /\ \A c \in Clients :
          (expiry > 0 /\ pc[c] = "StopGC" /\ NoJanitor /\ ret'.op # "StartGC")
          => /\ pc'[c] = "StopGC"
             /\ ret'.op # "StopGC"
             /\ NoJanitor']_vars

C13_Witness ==
  /\ expiry > 0
  /\ NoJanitor
  /\ \E c \in Clients : pc[c] = "StopGC"
  /\ now = MaxTime

\* C15: New fails exactly when maxSize is 0, and then starts no janitor;
\* otherwise maxCacheEntrySize is maxSize / 10, or maxSize when that is 0, and
\* so lies between 1 and maxSize; and a janitor runs exactly when expiry > 0.
C15_Construction ==
  /\ (maxSize = 0) <=> (newErr # ErrNil)
  /\ maxSize = 0 => NoJanitor
  /\ maxSize >= 1
       => /\ maxCacheEntrySize = (IF maxSize \div 10 = 0 THEN maxSize ELSE maxSize \div 10)
          /\ 1 <= maxCacheEntrySize /\ maxCacheEntrySize <= maxSize
          /\ (expiry > 0) <=> (\E j \in Janitors : jpc[j] # "none")
          /\ (expiry > 0) <=> (stopGC = "chan")

C15_Witness ==
  /\ 0 < maxSize /\ maxSize < 10
  /\ maxCacheEntrySize = maxSize
  /\ expiry > 0
  /\ \E j \in Janitors : jpc[j] = "gc_notify"
  /\ now = MaxTime

\* Every key whose last commit is still in place opens to exactly the payload
\* that was committed.
Readable ==
  \A k \in DOMAIN committed :
    LET r == OpenBody(Heap, k, committed[k].at, now)
    IN r.err = ErrNil /\ r.rbuf # 0 /\ bufs[r.rbuf] = committed[k].payload

\* C14: with the writers running concurrently, every finalize of a payload that
\* is not empty and within maxCacheEntrySize returns no error, whatever the
\* other writers do, and each key then opens to its own payload.
C14_DistinctKeyWrites ==
  [][/\ \A c \in Clients :
          (Close(c) /\ Fits(bufs[call[c].buf]))
          => /\ ret'.err = ErrNil
             /\ \A k \in DOMAIN entries \ {call[c].key} :
                  k \in DOMAIN entries' /\ entries'[k] = entries[k]
     /\ Readable']_vars

C14_Witness ==
  /\ ret.op = "Close" /\ ret.c = 2 /\ ret.err = ErrNil
  /\ DOMAIN committed = Keys
  /\ \A c \in Clients : pc[c] = "idle"
  /\ \E k \in Keys : k # ret.key /\ committed[k].payload[1] = 2
  /\ committed[ret.key].payload[1] = 1
  /\ Readable

\* The bytes of p all come from the sink with tag g.
WhollyOf(p, g) == p # <<>> /\ \A i \in DOMAIN p : p[i] = g

\* C16: a finalize of a non-empty in-cap payload under a key that already has an
\* entry returns no error; the key then has the one entry, over the finalizing
\* sink's buffer and holding its bytes alone, and the buffer of the entry it
\* replaced keeps its bytes and is not put in the pool.
C16_LastFinalizeWins ==
  [][\A c \in Clients :
       (Close(c) /\ Fits(bufs[call[c].buf]) /\ call[c].key \in DOMAIN entries)
       => LET key == call[c].key
              old == entries[key].buf
          IN /\ ret'.err = ErrNil
             /\ DOMAIN entries' = DOMAIN entries
             /\ entries'[key].buf = call[c].buf
             /\ bufs'[call[c].buf] = bufs[call[c].buf]
             /\ WhollyOf(bufs'[call[c].buf], call[c].tag)
             /\ old # call[c].buf
             /\ pool'[old] = pool[old] /\ pool'[old] = 0
             /\ bufs'[old] = bufs[old]]_vars

C16_Witness ==
  /\ ret.op = "Close" /\ ret.c = 2 /\ ret.err = ErrNil
  /\ nops = 2
  /\ \A c \in Clients : pc[c] = "idle"
  /\ DOMAIN entries = {ret.key}
  /\ entries[ret.key].buf = ret.rbuf
  /\ WhollyOf(bufs[ret.rbuf], 1)
  /\ \E b \in BufIds : b # ret.rbuf /\ WhollyOf(bufs[b], 2) /\ pool[b] = 0

\* A caller holds a reader over a buffer that has been reset and pooled.
Dangling(c) == pc[c] = "reading" /\ pool[call[c].buf] > 0

\* C17: the reader Open returns is over the buffer the entry holds; and while
\* no entry of the key has been removed since Open returned, that buffer is
\* neither reset nor in the pool.
C17_SnapshotAliasesEntry ==
  [][/\ \A c \in Clients, k \in Keys, t \in Time :
          (OpenRead(c, k, t) /\ ret'.err = ErrNil)
          => /\ call'[c].buf = entries[k].buf
             /\ entries'[k].buf = entries[k].buf
             /\ bufs'[call'[c].buf] = bufs[entries[k].buf]
     /\ \A c \in Clients :
          (pc'[c] = "reading" /\ removed'[call'[c].key] = call'[c].tag)
          => /\ pool'[call'[c].buf] = 0
             /\ bufs'[call'[c].buf] # <<>>
             /\ pc[c] = "reading" => bufs'[call'[c].buf] = bufs[call[c].buf]]_vars

\* The hazard by the janitor: a sweep has released the buffer a reader is over.
C17_Witness ==
  \E c \in Clients :
    /\ Dangling(c)
    /\ swept = 1
    /\ deleted = {}
    /\ removed[call[c].key] = call[c].tag + 1
    /\ \A k \in Keys : removed[k] = (IF k = call[c].key THEN 1 ELSE 0)

\* The same hazard by an explicit Delete, on a cache without expiry.
C17_ByDelete ==
  \E c \in Clients :
    /\ Dangling(c)
    /\ expiry = NoExpiry
    /\ call[c].key \in deleted
    /\ removed[call[c].key] = 1

\* The same hazard by a stale Open, on a cache without expiry.
C17_ByStaleOpen ==
  \E c \in Clients :
    /\ Dangling(c)
    /\ expiry = NoExpiry
    /\ deleted = {}
    /\ ret.op = "Open" /\ ret.err = ErrKeyNotFoundInCache /\ ret.key = call[c].key

\* C18: on a cache constructed with expiry 0 a sweep, if StartGC has set a
\* janitor going, removes nothing; an entry leaves the store only in a Delete
\* of its key, a stale Open of its key or a commit under its key; and StopGC
\* returns at the call.
C18_NoExpiryKeeps ==
  [][expiry = NoExpiry
     => /\ swept' = swept
        /\ \A j \in Janitors :
             (jpc[j] = "gc" /\ jpc'[j] = "gc_notify")
             => entries' = entries /\ evictedEntries'[j] = <<>>
        /\ \A k \in DOMAIN entries :
             (k \notin DOMAIN entries' \/ entries'[k].buf # entries[k].buf)
             => \/ \E c \in Clients : pc[c] = "Delete" /\ call[c].key = k
                \/ ret'.op = "Open" /\ ret'.key = k /\ ret'.err = ErrKeyNotFoundInCache
                \/ ret'.op = "Close" /\ ret'.key = k /\ ret'.err = ErrNil
        /\ \A c \in Clients :
             StopGC(c) => ret'.op = "StopGC" /\ ret'.c = c /\ pc'[c] = "idle"]_vars

C18_Witness ==
  /\ expiry = NoExpiry
  /\ \E j \in Janitors : jpc[j] = "gc_notify"
  /\ now = MaxTime
  /\ DOMAIN entries = Keys
  /\ \E k \in DOMAIN entries : entries[k].lastAccessed = 0
  /\ totalEvicted = 0

\* The finalize just returned turned its buffer b down (empty, or over the cap).
Rejects(b) ==
  \E c \in Clients : Close(c) /\ call[c].buf = b /\ ~Fits(bufs[b])

\* The step removes the entry that holds buffer b.
Removes(b) ==
  \E k \in DOMAIN entries : entries[k].buf = b /\ k \notin DOMAIN entries'

\* C19: no buffer of a stored entry is in the pool, no two entries hold the same
\* buffer, no buffer is in the pool twice; and a step puts a buffer in the pool
\* exactly when it is a finalize that rejects the buffer or it removes the entry
\* that holds it.
C19_BufferOwnership ==
  [][/\ \A k \in DOMAIN entries' : pool'[entries'[k].buf] = 0
     /\ \A k, l \in DOMAIN entries' : entries'[k].buf = entries'[l].buf => k = l
     /\ \A c \in Clients : pc'[c] = "sink" => pool'[call'[c].buf] = 0
     /\ \A b \in BufIds :
          /\ pool'[b] <= 1
          /\ pool'[b] > pool[b] <=> (Rejects(b) \/ Removes(b))]_vars

C19_Witness ==
  /\ totalEvicted = 1
  /\ allocated = 1
  /\ \E k \in DOMAIN entries : entries[k].buf = 1 /\ pool[1] = 0
  /\ \E k \in Keys : removed[k] = 1

RECURSIVE SumOver(_, _)
SumOver(f, S) ==
  IF S = {} THEN 0
  ELSE LET k == CHOOSE x \in S : TRUE
       IN f[k] + SumOver(f, S \ {k})

\* C20: currentSize is never below the sum of the stored entries' lengths, so
\* the subtraction in delete stays at or above 0; delete of a key that is not in
\* the store changes nothing; and totalEvicted never goes down and goes up by
\* one for each entry a Delete, a sweep or a stale Open removes.
C20_Counters ==
  [][/\ currentSize' >= SumLen(DOMAIN entries)'
     /\ currentSize' >= 0
     /\ \A k \in Keys \ DOMAIN entries : delete(Heap, k) = Heap
     /\ \A c \in Clients :
          (DeleteLocked(c) /\ call[c].key \notin DOMAIN entries)
          => UNCHANGED <<entries, currentSize, totalEvicted, bufs, pool>>
     /\ totalEvicted' >= totalEvicted
     /\ totalEvicted' = totalEvicted + Cardinality(DOMAIN entries \ DOMAIN entries')
     /\ totalEvicted' = SumOver(removed', Keys)]_vars

C20_Witness ==
  /\ ret.op = "Delete"
  /\ entries = <<>>
  /\ totalEvicted = 1
  /\ currentSize = 1

====
